---- MODULE Spec2Model ----
(***************************************************************************)
(* nb-rs: the build script (build.rs) that turns the nekos.best endpoint   *)
(* schema into one generated type per category, and the runtime           *)
(* fold/format contract (LocalNekosBestCategory) those types implement.    *)
(*                                                                         *)
(* Strings are sequences of one-character strings, so that parsing,        *)
(* capitalisation, padding and substitution are computed character by      *)
(* character as the code does.                                             *)
(***************************************************************************)
EXTENDS Integers, Sequences, FiniteSets, TLC

\* Largest number of entries of the schema document that is explored.
MaxEntries == 2

\* usize is 64 bits wide; the model narrows the word so that wrapped values
\* stay inside TLC's integers.  Every parsed value is far below the word.
UsizeBits == 16

WordModulus == 2 ^ UsizeBits

-----------------------------------------------------------------------------
\* Inputs: what the schema endpoint (or the bundled snapshot) may contain.
\* Names are non-empty ASCII identifiers (self.0[..1] needs a first byte).

Names == { <<"h", "u", "g">>, <<"w", "a", "v", "e">>, <<"t", "h", "u", "m", "b", "s", "u", "p">>, <<"T", "h", "u", "m", "b", "s", "U", "p">> }

MinStrs == { <<"1">>, <<"1", "0">>, <<"a", "b", "c">> }

MaxStrs == { <<"1", "5", "0">>, <<"5">>, <<"0", "0", "7">>, <<"+", "5">>, <<"a", "b", "c">> }

FormatStrs == { <<"i", "m", "g", "/", "{", "}", ".", "p", "n", "g">> }

\* EndpointDescInternal: the three string fields of one schema entry.
EndpointDescInternal == [min : MinStrs, max : MaxStrs, format : FormatStrs]

\* The JSON object served: category name -> raw entry.
Bodies ==
  UNION { [S -> EndpointDescInternal] :
            S \in { T \in SUBSET Names : Cardinality(T) <= MaxEntries } }

\* Seeds handed to the generated get_random(&self, random: usize).
Seeds == { 0, 6, 150, 151, 1000 }

\* Integers on which the fold policy itself is examined (the policy is stated
\* for every integer, negative ones included).
FoldInputs == Seeds \cup { -1, -150, -151, -1000, 7, 149 }

-----------------------------------------------------------------------------
\* The closed enumeration Category of the library.
Category ==
   { <<"B", "a", "k", "a">>,
     <<"C", "r", "y">>,
     <<"C", "u", "d", "d", "l", "e">>,
     <<"D", "a", "n", "c", "e">>,
     <<"F", "e", "e", "d">>,
     <<"H", "u", "g">>,
     <<"K", "i", "s", "s">>,
     <<"L", "a", "u", "g", "h">>,
     <<"N", "e", "k", "o", "s">>,
     <<"P", "a", "t">>,
     <<"P", "o", "k", "e">>,
     <<"S", "l", "a", "p">>,
     <<"S", "m", "i", "l", "e">>,
     <<"S", "m", "u", "g">>,
     <<"T", "i", "c", "k", "l", "e">>,
     <<"W", "a", "v", "e">> }

-----------------------------------------------------------------------------
\* <usize as FromStr>::from_str, base 10.

Digits == { "0", "1", "2", "3", "4", "5", "6", "7", "8", "9" }

DigitVal(c) ==
  CASE c = "0" -> 0 [] c = "1" -> 1 [] c = "2" -> 2 [] c = "3" -> 3
    [] c = "4" -> 4 [] c = "5" -> 5 [] c = "6" -> 6 [] c = "7" -> 7
    [] c = "8" -> 8 [] c = "9" -> 9

DigitChar(n) ==
  CASE n = 0 -> "0" [] n = 1 -> "1" [] n = 2 -> "2" [] n = 3 -> "3"
    [] n = 4 -> "4" [] n = 5 -> "5" [] n = 6 -> "6" [] n = 7 -> "7"
    [] n = 8 -> "8" [] n = 9 -> "9"

\* Err(ParseIntError) of a parse; every Ok value is >= 0.
ParseErr == -1

RECURSIVE DigitsValue(_, _)
\* Accumulates the digits of s, most significant first, onto acc; ParseErr
\* when the value leaves the word (PosOverflow).
DigitsValue(s, acc) ==
  IF s = << >> THEN acc
  ELSE LET next == acc * 10 + DigitVal(Head(s))
       IN  IF next >= WordModulus THEN ParseErr ELSE DigitsValue(Tail(s), next)

\* str::parse::<usize>(): one optional leading '+', then at least one digit,
\* nothing else.  The result is the value, or -1 for Err(ParseIntError).
parse(s) ==
  LET digits == IF s # << >> /\ Head(s) = "+" THEN Tail(s) ELSE s
  IN  IF digits = << >> THEN ParseErr
      ELSE IF \E i \in 1..Len(digits) : digits[i] \notin Digits THEN ParseErr
      ELSE DigitsValue(digits, 0)

\* try_from with the `?` of both parses replaced by unwrap_or_default().
try_from_lenient(d) ==
  [ok |-> TRUE,
   min |-> IF parse(d.min) = ParseErr THEN 0 ELSE parse(d.min),
   max |-> IF parse(d.max) = ParseErr THEN 0 ELSE parse(d.max),
   format |-> d.format,
   with_padding |-> Len(d.max)]

\* try_from with the padding taken from d.min instead of d.max.
try_from_min_len(d) ==
  IF parse(d.min) = ParseErr \/ parse(d.max) = ParseErr
  THEN [ok |-> FALSE, min |-> 0, max |-> 0, format |-> << >>, with_padding |-> 0]
  ELSE [ok |-> TRUE,
        min |-> parse(d.min),
        max |-> parse(d.max),
        format |-> d.format,
        with_padding |-> Len(d.min)]

\* TryFrom<EndpointDescInternal> for EndpointDesc.  Ok(desc) is the record
\* with ok = TRUE; an Err of either parse is ok = FALSE.
try_from(d) ==
  IF parse(d.min) = ParseErr \/ parse(d.max) = ParseErr
  THEN [ok |-> FALSE, min |-> 0, max |-> 0, format |-> << >>, with_padding |-> 0]
  ELSE [ok |-> TRUE,
        min |-> parse(d.min),
        max |-> parse(d.max),
        format |-> d.format,
        with_padding |-> Len(d.max)]

-----------------------------------------------------------------------------
\* CategoryData::to_tokens: the identifier and the item emitted per entry.

LowerCase == <<"a", "b", "c", "d", "e", "f", "g", "h", "i", "j", "k", "l", "m", "n", "o", "p", "q", "r", "s", "t", "u", "v", "w", "x", "y", "z">>

UpperCase == <<"A", "B", "C", "D", "E", "F", "G", "H", "I", "J", "K", "L", "M", "N", "O", "P", "Q", "R", "S", "T", "U", "V", "W", "X", "Y", "Z">>

\* char-wise to_uppercase of a one-character slice.
to_uppercase(c) ==
  IF \E i \in 1..Len(LowerCase) : LowerCase[i] = c
  THEN UpperCase[CHOOSE i \in 1..Len(LowerCase) : LowerCase[i] = c]
  ELSE c

\* The match on self.0: "thumbsup" is special-cased, every other name has its
\* first character upper-cased and the remainder kept.
TypeName(name) ==
  IF name = <<"t", "h", "u", "m", "b", "s", "u", "p">> THEN <<"T", "h", "u", "m", "b", "s", "U", "p">>
  ELSE << to_uppercase(Head(name)) >> \o Tail(name)

\* to_tokens with `let min = self.1.max;`.
to_tokens_min_from_max(name, d) ==
  [name         |-> TypeName(name),
   CATEGORY     |-> TypeName(name),
   MIN          |-> d.max,
   MAX          |-> d.max,
   WITH_PADDING |-> d.with_padding,
   FORMAT       |-> d.format]

\* to_tokens with WITH_PADDING bound to #min.
to_tokens_padding_from_min(name, d) ==
  [name         |-> TypeName(name),
   CATEGORY     |-> TypeName(name),
   MIN          |-> d.min,
   MAX          |-> d.max,
   WITH_PADDING |-> d.min,
   FORMAT       |-> d.format]

\* The quote! block: `pub struct #name;` and the impl binding the constants.
to_tokens(name, d) ==
  [name         |-> TypeName(name),
   CATEGORY     |-> TypeName(name),
   MIN          |-> d.min,
   MAX          |-> d.max,
   WITH_PADDING |-> d.with_padding,
   FORMAT       |-> d.format]

\* Iteration orders of a HashMap with the given key set: the order depends on
\* the per-process hasher seed, so any order of the keys can come out.
IterationOrders(keys) ==
  { f \in [1..Cardinality(keys) -> keys] :
      \A i, j \in 1..Cardinality(keys) : i # j => f[i] # f[j] }

\* The generated file is accepted by the compiler of the library crate only if
\* no two items define the same type and every crate::Category::#name names a
\* variant of Category.
Compiles(items) ==
  /\ \A i, j \in 1..Len(items) : i # j => items[i].name # items[j].name
  /\ \A i \in 1..Len(items) : items[i].CATEGORY \in Category

-----------------------------------------------------------------------------
\* LocalNekosBestCategory: the runtime contract of a generated type T.

RECURSIVE Render(_)
\* Canonical base-10 rendering of n >= 0.
Render(n) ==
  IF n < 10 THEN << DigitChar(n) >>
  ELSE Render(n \div 10) \o << DigitChar(n % 10) >>

\* {:0width$}: left-pads with '0' up to width, never truncates.
ZeroPad(s, width) ==
  IF Len(s) >= width THEN s
  ELSE [i \in 1..(width - Len(s)) |-> "0"] \o s

\* Replaces the first "{}" of fmt by s.
Substitute(fmt, s) ==
  LET P == { i \in 1..(Len(fmt) - 1) : fmt[i] = "{" /\ fmt[i + 1] = "}" }
  IN  IF P = {} THEN fmt
      ELSE LET p == CHOOSE i \in P : \A j \in P : i <= j
           IN  SubSeq(fmt, 1, p - 1) \o s \o SubSeq(fmt, p + 2, Len(fmt))

\* fold: MIN + (value mod (MAX - MIN + 1)), non-negative modulo.
fold(T, value) == T.MIN + (value % (T.MAX - T.MIN + 1))

\* The numeric portion: folded, zero-padded to WITH_PADDING.
padded(T, folded) == ZeroPad(Render(folded), T.WITH_PADDING)

\* format: the padded number substituted into FORMAT.
format(T, folded) == Substitute(T.FORMAT, padded(T, folded))

NoCall ==
  [made |-> FALSE, type |-> << >>, seed |-> 0, outcome |-> "none",
   underflow |-> FALSE, folded |-> 0, padded |-> << >>, text |-> << >>]

Panicked(T, seed) ==
  [made |-> TRUE, type |-> T.name, seed |-> seed, outcome |-> "panic",
   underflow |-> T.MAX < T.MIN, folded |-> 0, padded |-> << >>, text |-> << >>]

Returned(T, seed, folded) ==
  [made |-> TRUE, type |-> T.name, seed |-> seed, outcome |-> "ok",
   underflow |-> T.MAX < T.MIN, folded |-> folded,
   padded |-> padded(T, folded), text |-> format(T, folded)]

\* get_random(random) = format(fold(random)) on usize.  MAX - MIN underflows
\* when MAX < MIN: with overflow checks the call panics, without them the
\* difference wraps around the word (and a modulus of 0 panics).
get_random(T, seed, overflow_checks) ==
  IF T.MAX >= T.MIN THEN Returned(T, seed, fold(T, seed))
  ELSE IF overflow_checks THEN Panicked(T, seed)
  ELSE LET n == (T.MAX - T.MIN + 1) % WordModulus
       IN  IF n = 0 THEN Panicked(T, seed)
           ELSE Returned(T, seed, (T.MIN + (seed % n)) % WordModulus)

-----------------------------------------------------------------------------
\* State of the build script and of the compiled library.

VARIABLES
  body,            \* the schema document served to the build
  pc,              \* position of main: start, generate, write, done, failed
  err,             \* the Err main returned: none, transport, parse, out_dir
  endpoints,       \* HashMap<String, EndpointDesc> returned by the fetch
  implementations, \* the collected token stream, item by item
  artifact,        \* local_implementation.rs in OUT_DIR
  prevArtifact,    \* what the previous run of the build left there
  call             \* the last get_random call on a generated type

vars ==
  << body, pc, err, endpoints, implementations, artifact, prevArtifact, call >>

NoFile == [written |-> FALSE, items |-> << >>]

Init ==
  /\ body \in Bodies
  /\ pc = "start"
  /\ err = "none"
  /\ endpoints = << >>
  /\ implementations = << >>
  /\ artifact = NoFile
  /\ prevArtifact = NoFile
  /\ call = NoCall

\* serde_json / Response::json into HashMap<String, EndpointDesc>: every
\* entry goes through try_from, and the first Err fails the whole map.
Deserialize(doc) ==
  IF \E k \in DOMAIN doc : ~try_from(doc[k]).ok
  THEN [ok |-> FALSE, map |-> << >>]
  ELSE [ok |-> TRUE, map |-> [k \in DOMAIN doc |-> try_from(doc[k])]]

\* let endpoints = get_endpoints_data(&client).await?;
\* With DOCS_RS set the bundled snapshot is read (no network); otherwise the
\* request may fail in transport.
GetEndpointsData ==
  /\ pc = "start"
  /\ \E docs_rs \in BOOLEAN, net_ok \in BOOLEAN :
       IF ~docs_rs /\ ~net_ok
       THEN /\ pc' = "failed"
            /\ err' = "transport"
            /\ endpoints' = << >>
       ELSE LET r == Deserialize(body)
            IN  IF r.ok
                THEN /\ pc' = "generate"
                     /\ err' = "none"
                     /\ endpoints' = r.map
                ELSE /\ pc' = "failed"
                     /\ err' = "parse"
                     /\ endpoints' = << >>
  /\ UNCHANGED << body, implementations, artifact, prevArtifact, call >>

\* endpoints.into_iter().map(..).collect::<TokenStream>().to_string()
Generate ==
  /\ pc = "generate"
  /\ \E order \in IterationOrders(DOMAIN endpoints) :
       implementations' =
         [i \in 1..Len(order) |-> to_tokens(order[i], endpoints[order[i]])]
  /\ pc' = "write"
  /\ UNCHANGED << body, err, endpoints, artifact, prevArtifact, call >>

\* std::fs::write(PathBuf::from(std::env::var("OUT_DIR")?).join(..), ..)?
\* The Err branch is the one taken before any byte is written (OUT_DIR unset,
\* or the file cannot be created): the file in OUT_DIR stays as it was.
WriteArtifact ==
  /\ pc = "write"
  /\ \E out_dir_set \in BOOLEAN :
       IF out_dir_set
       THEN /\ artifact' = [written |-> TRUE, items |-> implementations]
            /\ pc' = "done"
            /\ err' = "none"
       ELSE /\ artifact' = artifact
            /\ pc' = "failed"
            /\ err' = "out_dir"
  /\ UNCHANGED << body, endpoints, implementations, prevArtifact, call >>

\* The build driver runs the script again on the same schema; the file of
\* the previous run stays in OUT_DIR until it is overwritten.
Rebuild ==
  /\ pc \in { "done", "failed" }
  /\ pc' = "start"
  /\ err' = "none"
  /\ endpoints' = << >>
  /\ implementations' = << >>
  /\ prevArtifact' = artifact
  /\ call' = NoCall
  /\ UNCHANGED << body, artifact >>

\* A consumer calls get_random on one of the compiled generated types.
GetRandom ==
  /\ pc = "done"
  /\ Compiles(artifact.items)
  /\ \E i \in 1..Len(artifact.items), seed \in Seeds, overflow_checks \in BOOLEAN :
       call' = get_random(artifact.items[i], seed, overflow_checks)
  /\ UNCHANGED << body, pc, err, endpoints, implementations, artifact, prevArtifact >>

Next ==
  \/ GetEndpointsData
  \/ Generate
  \/ WriteArtifact
  \/ Rebuild
  \/ GetRandom

Spec == Init /\ [][Next]_vars

-----------------------------------------------------------------------------
\* Properties.

\* The schema key a generated type was derived from (unique when the file
\* compiles).
KeyOf(ident) == CHOOSE k \in DOMAIN endpoints : TypeName(k) = ident

\* The build has finished and the library compiled with the generated file.
Compiled == pc = "done" /\ Compiles(artifact.items)

ScenarioEntry ==
  [min |-> <<"1">>, max |-> <<"1", "5", "0">>, format |-> <<"i", "m", "g", "/", "{", "}", ".", "p", "n", "g">>]

\* The generated types that come from the scenario entry.
ScenarioTypes ==
  { i \in 1..Len(artifact.items) :
      body[KeyOf(artifact.items[i].name)] = ScenarioEntry }

HasInvertedEntry ==
  \E k \in DOMAIN body :
    /\ parse(body[k].min) # ParseErr
    /\ parse(body[k].max) # ParseErr
    /\ parse(body[k].min) > parse(body[k].max)

\* C4: a schema with an entry whose parsed min exceeds its parsed max is
\* rejected: no descriptor map is returned and no artifact is written.
C4_InvertedRangeRejected ==
  HasInvertedEntry =>
    /\ DOMAIN endpoints = {}
    /\ ~artifact.written
    /\ pc \in { "start", "failed" }

\* C5: on the types generated from validated descriptors the runtime cannot
\* fail: MAX - MIN + 1 >= 1 for every generated type, and no get_random call
\* underflows or panics.
C5_RuntimeTotal ==
  /\ artifact.written =>
       \A i \in 1..Len(artifact.items) :
         artifact.items[i].MAX - artifact.items[i].MIN + 1 >= 1
  /\ call.made => (call.outcome = "ok" /\ ~call.underflow)

\* Some entry of the schema has a min or max that does not parse.
HasUnparsableEntry ==
  \E k \in DOMAIN body :
    parse(body[k].min) = ParseErr \/ parse(body[k].max) = ParseErr

\* C6: if the min or max of any entry fails to parse, the build never gets
\* past the fetch and the artifact is never written, in this run or any
\* other; so a written artifact implies that every entry parsed.
C6_NoArtifactOnParseFailure ==
  HasUnparsableEntry =>
    /\ ~artifact.written
    /\ ~prevArtifact.written
    /\ implementations = << >>
    /\ DOMAIN endpoints = {}
    /\ pc \in { "start", "failed" }
    /\ err \in { "none", "transport", "parse" }

\* The fetch failed on a schema that holds a good entry next to a bad one,
\* and nothing was written.
C6_Witness ==
  /\ pc = "failed"
  /\ err = "parse"
  /\ ~artifact.written
  /\ \E k \in DOMAIN body : try_from(body[k]).ok
  /\ \E k \in DOMAIN body : parse(body[k].max) = ParseErr
  /\ \E k \in DOMAIN body : parse(body[k].min) = ParseErr

\* C7: if two distinct names of the schema map to the same type identifier,
\* generation fails and no artifact is written.
C7_CollisionRejected ==
  (\E k1, k2 \in DOMAIN body : k1 # k2 /\ TypeName(k1) = TypeName(k2)) =>
    /\ ~artifact.written
    /\ pc # "done"

\* C8: two runs of the build on the same schema leave byte-identical
\* artifacts, whatever the iteration order of the map.
C8_ByteIdentical ==
  (artifact.written /\ prevArtifact.written) => artifact = prevArtifact

\* C9: every written artifact tags each generated type with a variant of
\* Category that exists.
C9_CategoryClosed ==
  artifact.written =>
    \A i \in 1..Len(artifact.items) : artifact.items[i].CATEGORY \in Category

\* C10: whatever get_random returns on a type generated from a validated
\* descriptor, the numeric portion it rendered has exactly WITH_PADDING
\* characters (the rendering of the folded value never has more digits).
C10_ExactWidth ==
  (call.made /\ call.outcome = "ok") =>
    \A i \in 1..Len(artifact.items) :
      artifact.items[i].name = call.type =>
        /\ Len(Render(call.folded)) <= artifact.items[i].WITH_PADDING
        /\ Len(call.padded) = artifact.items[i].WITH_PADDING

====
